---- MODULE Spec2Model ----
(***************************************************************************)
(* examples/QuantinuumExample.ipynb as a state machine.                    *)
(*                                                                         *)
(* The state is the notebook kernel's namespace (the names the cells       *)
(* bind), the local disk (the account record and the results_<id>.json     *)
(* files), and the remote device with its jobs.  There is one action per   *)
(* code cell; a cell runs its statements in order and stops at the first   *)
(* exception, which it never catches.  The SDK calls (qiskit_quantinuum,   *)
(* qiskit) are not part of the notebook: their effects are the operators   *)
(* of the section "SDK".                                                   *)
(***************************************************************************)
EXTENDS Naturals, Sequences, FiniteSets

(***************************** bounds *************************************)
\* Jobs the device accepts before execute stops queueing new ones.
MaxJobs == 2

(************************** program constants *****************************)
n_qubits == 2
shots == 100

DeviceName == "H1-2E"
user_name == "first.last@company.com"

\* The cells with the device listing put before the account cell.
Notebook_ListingFirst ==
  << "imports", "backends", "account", "device", "circuit", "submit",
     "status", "result", "counts", "plot", "save", "past" >>

\* The code cells, top to bottom.
Notebook ==
  << "imports", "account", "backends", "device", "circuit", "submit",
     "status", "result", "counts", "plot", "save", "past" >>

NoError == "none"
NameError == "NameError"

VARIABLES
  qhprc,     \* disk: the account record save_account keeps (<<>> or <<user>>)
  files,     \* disk: job id J |-> <<>> (no results_J.json) or <<its text>>
  jobs,      \* remote: job id |-> [state, hist]
  imported,  \* kernel: the import cell ran
  account,   \* kernel: load_account succeeded in this session
  device,    \* kernel name `device`
  backend,   \* kernel name `backend`
  status,    \* kernel name `status` (its status_msg)
  circuit,   \* kernel name `circuit`
  job,       \* kernel name `job` (the job's id; 0: unbound)
  result,    \* kernel name `result` (<<>> or <<[job_id, success, data]>>)
  counts,    \* kernel name `counts` (<<>> or <<mapping>>)
  job_id,    \* kernel name `job_id` (0: unbound)
  calls,     \* Run All: the calls the cell executed last issued, in order
  raised,    \* Run All: the exception that cell ended with
  shown,     \* Run All: the value the job.status() cell displayed
  cell,      \* Run All: index of the next cell
  halted,    \* Run All: stopped by an exception
  returned   \* history: job id |-> the counts job.result() has returned for it

disk == <<qhprc, files>>
remote == <<jobs>>
kernel ==
  <<imported, account, device, backend, status, circuit, job, result, counts,
    job_id>>
obs == <<calls, raised, shown>>
runner == <<cell, halted>>
vars == <<disk, remote, kernel, obs, runner, returned>>

JobIds == 1 .. MaxJobs

(******************************* SDK **************************************)
SdkErrors ==
  {"AuthenticationError", "DeviceOffline", "MalformedCircuit", "NetworkError"}

\* The exceptions a call can end with.  QuantumCircuit, get_counts,
\* plot_histogram and save_account work on local data and do not raise here.
Raises(call) ==
  CASE call = "load_account" -> {"AuthenticationError", "NetworkError"}
    [] call = "execute" -> {"DeviceOffline", "NetworkError"}
    [] call \in {"backends", "get_backend", "backend_status", "job_status",
                 "job_result", "retrieve_job"} -> {"NetworkError"}
    [] OTHER -> {}

\* Measurement outcomes of the circuit's qubits, most significant bit first.
Outcomes == [1 .. n_qubits -> {0, 1}]

\* A histogram over the four outcomes 00, 11, 01, 10.
MkHist(a, b, c) ==
  [o \in Outcomes |->
     IF o = <<0, 0>> THEN a
     ELSE IF o = <<1, 1>> THEN b
     ELSE IF o = <<0, 1>> THEN c
     ELSE shots - (a + b + c)]

\* The histograms a completed job can hold, every shot on one outcome: the
\* recorded run (47 of 00, 52 of 11, 1 of 01), an even Bell split, and a run
\* that lands on 10 alone.
Histograms == {MkHist(47, 52, 1), MkHist(50, 50, 0), MkHist(0, 0, 0)}

NoData == [o \in Outcomes |-> 0]

Final == {"completed", "failed"}

\* JobStatus as job.status() reports it.
JobStatus(state) ==
  CASE state = "queued" -> "QUEUED"
    [] state = "running" -> "RUNNING"
    [] state = "completed" -> "DONE"
    [] OTHER -> "ERROR"

\* The status_msg values backend.status() answers with, as the device is.
StatusMsgs == {"online", "offline"}

\* Number of jobs submitted so far; ids are handed out in order.
Submitted == {j \in JobIds : jobs[j].state # "absent"}

\* The Result object job.result() builds for job j.
ResultOf(j) ==
  [job_id |-> j, success |-> jobs[j].state = "completed", data |-> jobs[j].hist]

(********************** get_counts and json.dump **************************)
\* The key get_counts gives an outcome: its bits without the leading zeros
\* (the recorded output shows '0' and '1' beside '11').
RECURSIVE FormatKey(_)
FormatKey(bits) ==
  IF Len(bits) > 1 /\ Head(bits) = 0 THEN FormatKey(Tail(bits)) ELSE bits

RECURSIVE SumOver(_, _)
SumOver(S, h) ==
  IF S = {} THEN 0
  ELSE LET o == CHOOSE x \in S : TRUE IN h[o] + SumOver(S \ {o}, h)

\* result.get_counts(): key |-> count, for the outcomes that were observed.
GetCounts(r) ==
  LET seen == {o \in Outcomes : r.data[o] > 0}
      keys == {FormatKey(o) : o \in seen}
  IN  [k \in keys |-> SumOver({o \in seen : FormatKey(o) = k}, r.data)]

RECURSIVE KeyVal(_)
KeyVal(k) == IF k = <<>> THEN 0 ELSE 2 * KeyVal(SubSeq(k, 1, Len(k) - 1)) + k[Len(k)]

\* json.dump of a counts mapping: the members key: value of one JSON object,
\* here in the order of the keys' values.
RECURSIVE JsonMembers(_, _)
JsonMembers(m, keys) ==
  IF keys = {} THEN <<>>
  ELSE LET k == CHOOSE x \in keys : \A y \in keys : KeyVal(x) <= KeyVal(y)
       IN  <<[key |-> k, value |-> m[k]]>> \o JsonMembers(m, keys \ {k})

JsonDump(m) == JsonMembers(m, DOMAIN m)

\* The mapping a JSON text of that form stands for.
JsonLoad(text) ==
  [k \in {text[i].key : i \in DOMAIN text} |->
     text[CHOOSE i \in DOMAIN text : text[i].key = k].value]

(***************************** notebook ***********************************)
Unbound == "unbound"

BellTest ==
  [name |-> "Bell Test", qubits |-> n_qubits, clbits |-> n_qubits,
   ops |-> <<"h 0", "cx 0 1", "measure_all">>]

Init ==
  /\ qhprc = <<>>
  /\ files = [j \in JobIds |-> <<>>]
  /\ jobs = [j \in JobIds |-> [state |-> "absent", hist |-> NoData]]
  /\ imported = FALSE
  /\ account = FALSE
  /\ device = Unbound
  /\ backend = Unbound
  /\ status = Unbound
  /\ circuit = <<>>
  /\ job = 0
  /\ shown = Unbound
  /\ result = <<>>
  /\ counts = <<>>
  /\ job_id = 0
  /\ calls = <<>>
  /\ raised = NoError
  /\ cell = 1
  /\ halted = FALSE
  /\ returned = [j \in JobIds |-> {}]

\* What one execution of a cell leaves in the log: the calls it issued and
\* the exception it ended with.  No cell has a try statement, so the exception
\* of a call is the exception of the cell.
\* The log is kept while a Run All is in progress; by hand nothing is logged.
Logging == cell <= Len(Notebook)

Observe(cs, e) ==
  IF Logging THEN calls' = cs /\ raised' = e ELSE UNCHANGED <<calls, raised>>

Display(v) == shown' = IF Logging THEN v ELSE shown

\* A name the cell reads is not bound: Python raises NameError before any call.
NameErr ==
  /\ Observe(<<>>, NameError)
  /\ UNCHANGED <<disk, remote, kernel, shown, returned>>

\* import numpy, QuantumCircuit, execute, Quantinuum, plot_histogram
ImportsCell ==
  /\ imported' = TRUE
  /\ Observe(<<>>, NoError)
  /\ UNCHANGED <<disk, remote, account, device, backend, status, circuit, job,
                 shown, result, counts, job_id, returned>>

\* Quantinuum.save_account(user_name=...); Quantinuum.load_account()
AccountCell ==
  IF ~imported THEN NameErr
  ELSE /\ qhprc' = <<user_name>>
       /\ \/ \E e \in Raises("load_account") :
               /\ account' = account
               /\ Observe(<<"save_account", "load_account">>, e)
          \/ /\ account' = TRUE
             /\ Observe(<<"save_account", "load_account">>, NoError)
       /\ UNCHANGED <<files, remote, imported, device, backend, status, circuit,
                      job, shown, result, counts, job_id, returned>>

\* Quantinuum.backends()
BackendsCell ==
  IF ~imported THEN NameErr
  ELSE /\ \/ \E e \in Raises("backends") : Observe(<<"backends">>, e)
          \/ Observe(<<"backends">>, NoError)
       /\ UNCHANGED <<disk, remote, kernel, shown, returned>>

\* device = 'H1-2E'; backend = Quantinuum.get_backend(device);
\* status = backend.status(); print(device, "status :", status.status_msg)
DeviceCell ==
  IF ~imported
  THEN /\ device' = DeviceName
       /\ Observe(<<>>, NameError)
       /\ UNCHANGED <<disk, remote, imported, account, backend, status, circuit,
                      job, shown, result, counts, job_id, returned>>
  ELSE /\ device' = DeviceName
       /\ \/ \E e \in Raises("get_backend") :
               /\ UNCHANGED <<backend, status>>
               /\ Observe(<<"get_backend">>, e)
          \/ \E e \in Raises("backend_status") :
               /\ backend' = DeviceName
               /\ status' = status
               /\ Observe(<<"get_backend", "backend_status">>, e)
          \/ \E msg \in StatusMsgs :
               /\ backend' = DeviceName
               /\ status' = msg
               /\ Observe(<<"get_backend", "backend_status">>, NoError)
       /\ UNCHANGED <<disk, remote, imported, account, circuit, job, shown,
                      result, counts, job_id, returned>>

\* n_qubits = 2; circuit = QuantumCircuit(n_qubits, n_qubits, name='Bell Test');
\* circuit.h(0); circuit.cx(0, 1); circuit.measure_all(); circuit.draw()
CircuitCell ==
  IF ~imported THEN NameErr
  ELSE /\ circuit' = <<BellTest>>
       /\ Observe(<<"QuantumCircuit">>, NoError)
       /\ UNCHANGED <<disk, remote, imported, account, device, backend, status,
                      job, shown, result, counts, job_id, returned>>

\* The submit cell with a retry: a failed execute is issued a second time.
SubmitCell_Retries ==
  IF ~imported \/ circuit = <<>> \/ backend = Unbound THEN NameErr
  ELSE \/ \E e \in Raises("execute") :
            /\ Observe(<<"execute", "execute">>, e)
            /\ UNCHANGED <<disk, remote, kernel, shown, returned>>
       \/ \E cs \in {<<"execute">>, <<"execute", "execute">>} :
            /\ Cardinality(Submitted) < MaxJobs
            /\ LET j == Cardinality(Submitted) + 1
               IN  /\ jobs' = [jobs EXCEPT ![j] = [state |-> "queued", hist |-> NoData]]
                   /\ job' = j
            /\ Observe(cs, NoError)
            /\ UNCHANGED <<disk, imported, account, device, backend, status,
                           circuit, shown, result, counts, job_id, returned>>

\* The submit cell guarded by the status it read: it submits to an online
\* device only.
SubmitCell_OnlyIfOnline ==
  IF ~imported \/ circuit = <<>> \/ backend = Unbound THEN NameErr
  ELSE IF status # "online"
  THEN /\ Observe(<<>>, NoError)
       /\ UNCHANGED <<disk, remote, kernel, shown, returned>>
  ELSE \/ \E e \in Raises("execute") :
            /\ Observe(<<"execute">>, e)
            /\ UNCHANGED <<disk, remote, kernel, shown, returned>>
       \/ /\ Cardinality(Submitted) < MaxJobs
          /\ LET j == Cardinality(Submitted) + 1
             IN  /\ jobs' = [jobs EXCEPT ![j] = [state |-> "queued", hist |-> NoData]]
                 /\ job' = j
          /\ Observe(<<"execute">>, NoError)
          /\ UNCHANGED <<disk, imported, account, device, backend, status,
                         circuit, shown, result, counts, job_id, returned>>

\* shots = 100; job = execute(circuit, backend, shots=shots)
SubmitCell ==
  IF ~imported \/ circuit = <<>> \/ backend = Unbound THEN NameErr
  ELSE \/ \E e \in Raises("execute") :
            /\ Observe(<<"execute">>, e)
            /\ UNCHANGED <<disk, remote, kernel, shown, returned>>
       \/ /\ Cardinality(Submitted) < MaxJobs
          /\ LET j == Cardinality(Submitted) + 1
             IN  /\ jobs' = [jobs EXCEPT ![j] = [state |-> "queued", hist |-> NoData]]
                 /\ job' = j
          /\ Observe(<<"execute">>, NoError)
          /\ UNCHANGED <<disk, imported, account, device, backend, status,
                         circuit, shown, result, counts, job_id, returned>>

\* job.status()
StatusCell ==
  IF job = 0 THEN NameErr
  ELSE /\ \/ \E e \in Raises("job_status") :
               shown' = shown /\ Observe(<<"job_status">>, e)
          \/ /\ Display(JobStatus(jobs[job].state))
             /\ Observe(<<"job_status">>, NoError)
       /\ UNCHANGED <<disk, remote, imported, account, device, backend, status,
                      circuit, job, result, counts, job_id, returned>>

\* The result cell reading the job's data without waiting for a final state.
ResultCell_NoWait ==
  IF job = 0 THEN NameErr
  ELSE /\ \/ \E e \in Raises("job_result") :
               /\ UNCHANGED <<result, returned>>
               /\ Observe(<<"job_result">>, e)
          \/ /\ result' = <<ResultOf(job)>>
             /\ returned' =
                  [returned EXCEPT ![job] = @ \cup {GetCounts(ResultOf(job))}]
             /\ Observe(<<"job_result">>, NoError)
       /\ UNCHANGED <<disk, remote, imported, account, device, backend, status,
                      circuit, job, shown, counts, job_id>>

\* The result cell with a success flag that is never set.
ResultCell_StaleSuccess ==
  IF job = 0 THEN NameErr
  ELSE /\ \/ \E e \in Raises("job_result") :
               /\ UNCHANGED <<result, returned>>
               /\ Observe(<<"job_result">>, e)
          \/ /\ jobs[job].state \in Final
             /\ result' = <<[ResultOf(job) EXCEPT !.success = FALSE]>>
             /\ returned' =
                  [returned EXCEPT ![job] = @ \cup {GetCounts(ResultOf(job))}]
             /\ Observe(<<"job_result">>, NoError)
       /\ UNCHANGED <<disk, remote, imported, account, device, backend, status,
                      circuit, job, shown, counts, job_id>>

\* result = job.result(); print("Job ID:", result.job_id);
\* print("Job success:", result.success)
\* job.result() blocks until the job is in a final state.
ResultCell ==
  IF job = 0 THEN NameErr
  ELSE /\ \/ \E e \in Raises("job_result") :
               /\ UNCHANGED <<result, returned>>
               /\ Observe(<<"job_result">>, e)
          \/ /\ jobs[job].state \in Final
             /\ result' = <<ResultOf(job)>>
             /\ returned' =
                  [returned EXCEPT ![job] = @ \cup {GetCounts(ResultOf(job))}]
             /\ Observe(<<"job_result">>, NoError)
       /\ UNCHANGED <<disk, remote, imported, account, device, backend, status,
                      circuit, job, shown, counts, job_id>>

\* The counts cell also dumping the counts to the results file.
CountsCell_AlsoSaves ==
  IF result = <<>> THEN NameErr
  ELSE /\ counts' = <<GetCounts(result[1])>>
       /\ files' =
            [files EXCEPT ![result[1].job_id] = <<JsonDump(GetCounts(result[1]))>>]
       /\ Observe(<<"get_counts">>, NoError)
       /\ UNCHANGED <<qhprc, remote, imported, account, device, backend, status,
                      circuit, job, shown, result, job_id, returned>>

\* counts = result.get_counts(); print("Total count for 00 and 11 are:", counts)
CountsCell ==
  IF result = <<>> THEN NameErr
  ELSE /\ counts' = <<GetCounts(result[1])>>
       /\ Observe(<<"get_counts">>, NoError)
       /\ UNCHANGED <<disk, remote, imported, account, device, backend, status,
                      circuit, job, shown, result, job_id, returned>>

\* plot_histogram(counts)
PlotCell ==
  IF ~imported \/ counts = <<>> THEN NameErr
  ELSE /\ Observe(<<"plot_histogram">>, NoError)
       /\ UNCHANGED <<disk, remote, kernel, shown, returned>>

\* The save cell naming the file after `job` instead of `result`.
SaveCell_NamedByJob ==
  IF result = <<>> \/ job = 0 THEN NameErr
  ELSE /\ files' = [files EXCEPT ![job] = <<JsonDump(GetCounts(result[1]))>>]
       /\ Observe(<<"open", "get_counts", "json_dump">>, NoError)
       /\ UNCHANGED <<qhprc, remote, kernel, shown, returned>>

\* import json
\* with open(f'results_{result.job_id}.json', 'w') as f:
\*     json.dump(result.get_counts(), f)
SaveCell ==
  IF result = <<>> THEN NameErr
  ELSE /\ files' =
            [files EXCEPT ![result[1].job_id] = <<JsonDump(GetCounts(result[1]))>>]
       /\ Observe(<<"open", "get_counts", "json_dump">>, NoError)
       /\ UNCHANGED <<qhprc, remote, kernel, shown, returned>>

\* The past-job cell fetching the result before it rebinds `job`: the result
\* is that of the job `job` named before.
PastJobCell_StaleJob ==
  \E j \in JobIds :
    /\ device' = DeviceName
    /\ job_id' = j
    /\ IF ~imported \/ job = 0
       THEN /\ Observe(<<>>, NameError)
            /\ UNCHANGED <<backend, job, result, counts, returned>>
       ELSE \/ \E e \in Raises("get_backend") :
                 /\ Observe(<<"get_backend">>, e)
                 /\ UNCHANGED <<backend, job, result, counts, returned>>
            \/ /\ jobs[job].state \in Final
               /\ jobs[j].state # "absent"
               /\ backend' = DeviceName
               /\ job' = j
               /\ result' = <<ResultOf(job)>>
               /\ counts' = <<GetCounts(ResultOf(job))>>
               /\ returned' =
                    [returned EXCEPT ![job] = @ \cup {GetCounts(ResultOf(job))}]
               /\ Observe(<<"get_backend", "job_result", "retrieve_job", "get_counts">>,
                          NoError)
    /\ UNCHANGED <<disk, remote, imported, account, status, circuit, shown>>

\* device = 'H1-2E'; job_id = '<a job id>'; backend = Quantinuum.get_backend(device);
\* job = backend.retrieve_job(job_id); result = job.result();
\* counts = result.get_counts(); print(counts)
PastJobCell ==
  \E j \in JobIds :
    /\ device' = DeviceName
    /\ job_id' = j
    /\ IF ~imported
       THEN /\ Observe(<<>>, NameError)
            /\ UNCHANGED <<backend, job, result, counts, returned>>
       ELSE \/ \E e \in Raises("get_backend") :
                 /\ Observe(<<"get_backend">>, e)
                 /\ UNCHANGED <<backend, job, result, counts, returned>>
            \/ \E e \in Raises("retrieve_job") :
                 /\ backend' = DeviceName
                 /\ Observe(<<"get_backend", "retrieve_job">>, e)
                 /\ UNCHANGED <<job, result, counts, returned>>
            \/ \E e \in Raises("job_result") :
                 /\ jobs[j].state # "absent"
                 /\ backend' = DeviceName
                 /\ job' = j
                 /\ Observe(<<"get_backend", "retrieve_job", "job_result">>, e)
                 /\ UNCHANGED <<result, counts, returned>>
            \/ /\ jobs[j].state \in Final
               /\ backend' = DeviceName
               /\ job' = j
               /\ result' = <<ResultOf(j)>>
               /\ counts' = <<GetCounts(ResultOf(j))>>
               /\ returned' =
                    [returned EXCEPT ![j] = @ \cup {GetCounts(ResultOf(j))}]
               /\ Observe(<<"get_backend", "retrieve_job", "job_result", "get_counts">>,
                          NoError)
    /\ UNCHANGED <<disk, remote, imported, account, status, circuit, shown>>

(****************************** device ************************************)
\* The remote service: it takes a queued job, runs it, and ends it completed
\* with a histogram or failed.
DeviceStep ==
  /\ \/ \E j \in JobIds :
          /\ jobs[j].state = "queued"
          /\ jobs' = [jobs EXCEPT ![j].state = "running"]
     \/ \E j \in JobIds, h \in Histograms :
          /\ jobs[j].state = "running"
          /\ jobs' = [jobs EXCEPT ![j] = [state |-> "completed", hist |-> h]]
     \/ \E j \in JobIds :
          /\ jobs[j].state = "running"
          /\ jobs' = [jobs EXCEPT ![j].state = "failed"]
  /\ UNCHANGED <<disk, kernel, obs, returned>>

(*************************** specifications *******************************)
\* Run All: the cells top to bottom in a fresh kernel, each after the one
\* before it returned; an uncaught exception ends the run.
Run(c, A) ==
  /\ ~halted
  /\ cell <= Len(Notebook)
  /\ Notebook[cell] = c
  /\ A
  /\ IF raised' = NoError
     THEN cell' = cell + 1 /\ halted' = FALSE
     ELSE cell' = cell /\ halted' = TRUE

RunCells ==
  \/ Run("imports", ImportsCell)
  \/ Run("account", AccountCell)
  \/ Run("backends", BackendsCell)
  \/ Run("device", DeviceCell)
  \/ Run("circuit", CircuitCell)
  \/ Run("submit", SubmitCell)
  \/ Run("status", StatusCell)
  \/ Run("result", ResultCell)
  \/ Run("counts", CountsCell)
  \/ Run("plot", PlotCell)
  \/ Run("save", SaveCell)
  \/ Run("past", PastJobCell)

NextRun == RunCells \/ (DeviceStep /\ UNCHANGED runner)

\* The kernel goes on with the cell it is at whenever that cell can go on.
RunAllSpec == Init /\ [][NextRun]_vars /\ WF_vars(RunCells)

\* By hand: the set-up cells (imports, account, device, circuit) have run,
\* no Run All is in progress, and a person runs any cell at any time.
InitHand ==
  /\ qhprc = <<user_name>>
  /\ files = [j \in JobIds |-> <<>>]
  /\ jobs = [j \in JobIds |-> [state |-> "absent", hist |-> NoData]]
  /\ imported = TRUE
  /\ account = TRUE
  /\ device = DeviceName
  /\ backend = DeviceName
  /\ status \in StatusMsgs
  /\ circuit = <<BellTest>>
  /\ job = 0
  /\ shown = Unbound
  /\ result = <<>>
  /\ counts = <<>>
  /\ job_id = 0
  /\ calls = <<>>
  /\ raised = NoError
  /\ cell = Len(Notebook) + 1
  /\ halted = FALSE
  /\ returned = [j \in JobIds |-> {}]

Next ==
  \/ ImportsCell /\ UNCHANGED runner
  \/ AccountCell /\ UNCHANGED runner
  \/ BackendsCell /\ UNCHANGED runner
  \/ DeviceCell /\ UNCHANGED runner
  \/ CircuitCell /\ UNCHANGED runner
  \/ SubmitCell /\ UNCHANGED runner
  \/ StatusCell /\ UNCHANGED runner
  \/ ResultCell /\ UNCHANGED runner
  \/ CountsCell /\ UNCHANGED runner
  \/ PlotCell /\ UNCHANGED runner
  \/ SaveCell /\ UNCHANGED runner
  \/ PastJobCell /\ UNCHANGED runner
  \/ DeviceStep /\ UNCHANGED runner

Spec == InitHand /\ [][Next]_vars

(***************************** properties *********************************)
Idx(c) == CHOOSE i \in DOMAIN Notebook : Notebook[i] = c

IsPrefix(s, t) == Len(s) <= Len(t) /\ s = SubSeq(t, 1, Len(s))

\* A step of Run All that executed the cell at index `cell`.
Executed == cell' # cell \/ halted' # halted

AnyFile == \E j \in JobIds : files[j] # <<>>

\* The steps in the order the description lists them, one group per cell
\* (the import cell issues none).
StepOrder ==
  << <<>>,
     <<"save_account", "load_account">>,
     <<"backends">>,
     <<"get_backend", "backend_status">>,
     <<"QuantumCircuit">>,
     <<"execute">>,
     <<"job_status">>,
     <<"job_result">>,
     <<"get_counts">>,
     <<"plot_histogram">>,
     <<"open", "get_counts", "json_dump">> >>

\* C1: in a top-to-bottom run the k-th cell executed issues exactly the k-th
\* group of steps of the listed order (credential save then load, backend
\* listing, get_backend and status, circuit, execute, job.status, job.result,
\* get_counts, plot_histogram, JSON write), a prefix of it when a call raises;
\* cells execute one at a time in index order, and no cell finds a name it
\* reads unbound.
C1_StepsInOrder ==
  /\ [][cell' \in {cell, cell + 1}]_vars
  /\ [][(Executed /\ cell <= Len(StepOrder)) =>
          /\ IsPrefix(calls', StepOrder[cell])
          /\ raised' = NoError => calls' = StepOrder[cell]
          /\ raised' # NameError]_vars

C1_RunReachedJsonWrite == cell > Idx("save") /\ AnyFile

RECURSIVE SumValues(_, _)
SumValues(m, keys) ==
  IF keys = {} THEN 0
  ELSE LET k == CHOOSE x \in keys : TRUE IN m[k] + SumValues(m, keys \ {k})

C4_FailureSurfacesOnceNoFile ==
  /\ [](halted <=> raised # NoError)
  /\ [](halted => raised \in SdkErrors)
  /\ [](\A i, k \in DOMAIN calls : calls[i] = calls[k] => i = k)
  /\ [][halted => UNCHANGED <<disk, kernel, obs, runner>>]_vars
  /\ []((halted /\ cell <= Idx("result")) => ~AnyFile)

C4_ResultRetrievalFailed ==
  /\ halted
  /\ cell = Idx("result")
  /\ raised = "NetworkError"
  /\ calls = <<"job_result">>
  /\ ~AnyFile

C8_FullWidthKeys ==
  (result # <<>> /\ result[1].success /\ counts = <<GetCounts(result[1])>>) =>
    /\ \A k \in DOMAIN counts[1] : Len(k) = n_qubits
    /\ SumValues(counts[1], DOMAIN counts[1]) = shots

\* C10: whatever the status cells displayed, the submit cell issues execute,
\* the result cell job.result(), the counts cell get_counts() on the result
\* it got, and the save cell writes the file of that result; the device cell
\* binds only device, backend and status, and the status cell binds nothing.
C10_NoBranchOnReturnedValues ==
  [][Executed =>
       /\ cell = Idx("device") =>
            UNCHANGED <<disk, remote, imported, account, circuit, job, result,
                        counts, job_id>>
       /\ cell = Idx("submit") => calls' = <<"execute">>
       /\ cell = Idx("status") => UNCHANGED <<disk, remote, kernel>>
       /\ cell = Idx("result") => calls' = <<"job_result">>
       /\ cell = Idx("counts") =>
            calls' = <<"get_counts">> /\ counts' = <<GetCounts(result[1])>>
       /\ cell = Idx("save") =>
            /\ calls' = <<"open", "get_counts", "json_dump">>
            /\ files'[result[1].job_id] = <<JsonDump(GetCounts(result[1]))>>]_vars

\* The file of an unsuccessful result was written after the device answered
\* offline and the job status displayed was not DONE.
C10_SavedDespiteOfflineAndFailure ==
  /\ status = "offline"
  /\ shown \in {"QUEUED", "RUNNING"}
  /\ result # <<>>
  /\ ~result[1].success
  /\ files[result[1].job_id] # <<>>

====
